---- MODULE Spec2Model ----
(***************************************************************************)
(* TriBond answer checking (PuzzleBreak): AnswerService.checkAnswer and    *)
(* its helpers isFuzzyMatch, levenshtein, isSynonymMatch and               *)
(* fetchSynonyms, run by concurrent callers on the JavaScript event loop.  *)
(* A call suspends only at its awaits: the answers query, fetch() and      *)
(* response.json().                                                        *)
(*                                                                         *)
(* Strings are sequences of one-character strings.                         *)
(***************************************************************************)
EXTENDS Integers, Sequences, FiniteSets, TLC

\* ------------------------------------------------------------------ bounds

\* Longest raw user input (in characters).
MaxLen == 4
\* Synonym lookups sent in one run: a call is started only while the lookups
\* sent and the calls that may still send one are fewer.
MaxRequests == 2
\* Concurrent callers of checkAnswer.
NumProcs == 2
\* Last instant of the wall clock.
MaxTime == 1

\* ----------------------------------------------------------------- strings

\* Characters of a raw input: letters in both cases, and white space.
Chars == {"a", "b", "A", " "}

\* Every raw string of at most n characters.
StringsUpTo(n) == UNION {[1..k -> Chars] : k \in 0..n}

RawInputs == StringsUpTo(MaxLen)

IsSpace(c) == c = " "

\* One character of String.prototype.toLowerCase.
LowerChar(c) == IF c = "A" THEN "a" ELSE IF c = "B" THEN "b" ELSE c

ToLowerCase(s) == [i \in 1..Len(s) |-> LowerChar(s[i])]

RECURSIVE TrimStart(_)
TrimStart(s) ==
  IF s # <<>> /\ IsSpace(Head(s)) THEN TrimStart(Tail(s)) ELSE s

RECURSIVE TrimEnd(_)
TrimEnd(s) ==
  IF s # <<>> /\ IsSpace(s[Len(s)]) THEN TrimEnd(SubSeq(s, 1, Len(s) - 1)) ELSE s

\* String.prototype.trim.
Trim(s) == TrimEnd(TrimStart(s))

\* The expression x.trim().toLowerCase() the service applies before comparing.
TrimLower(s) == ToLowerCase(Trim(s))

\* Array.prototype.includes on an array of strings.
Includes(arr, x) == \E i \in 1..Len(arr) : arr[i] = x

\* ------------------------------------------------------------- levenshtein

Min2(x, y) == IF x <= y THEN x ELSE y

\* Row i of the distance matrix from row i-1: d[i][0] = i, and
\* d[i][j] = d[i-1][j-1] when the characters are equal, else
\* 1 + min(d[i-1][j], d[i][j-1], d[i-1][j-1]).  Rows are indexed from 1, so
\* column j is at position j+1.
RECURSIVE LevRow(_, _, _, _, _)
LevRow(prev, ch, b, i, acc) ==
  LET j == Len(acc) IN
  IF j > Len(b) THEN acc
  ELSE LET cell == IF j = 0 THEN i
                   ELSE IF ch = b[j] THEN prev[j]
                   ELSE 1 + Min2(prev[j + 1], Min2(acc[j], prev[j]))
       IN LevRow(prev, ch, b, i, Append(acc, cell))

RECURSIVE LevRows(_, _, _, _)
LevRows(a, b, i, prev) ==
  IF i > Len(a) THEN prev
  ELSE LevRows(a, b, i + 1, LevRow(prev, a[i], b, i, <<>>))

\* levenshtein with the first row of the matrix all zero.
levenshteinZeroRow(a, b) ==
  LevRows(a, b, 1, [j \in 1..(Len(b) + 1) |-> 0])[Len(b) + 1]

\* AnswerService.levenshtein: the body is elided in the source; the dynamic
\* programme is the one the design gives for the edit-distance matcher.
levenshtein(a, b) ==
  LevRows(a, b, 1, [j \in 1..(Len(b) + 1) |-> j - 1])[Len(b) + 1]

\* ---------------------------------------------------------------- isFuzzyMatch

\* The threshold of isFuzzyMatch.
FuzzyThreshold == 2

\* The local levenshteinDistance of isFuzzyMatch.
LevenshteinDistance(userInput, target) ==
  levenshtein(TrimLower(userInput), TrimLower(target))

\* isFuzzyMatch with the comparison written < instead of <=.
isFuzzyMatchStrict(userInput, correctAnswer) ==
  LevenshteinDistance(userInput, correctAnswer) < FuzzyThreshold

isFuzzyMatch(userInput, correctAnswer) ==
  LevenshteinDistance(userInput, correctAnswer) <= FuzzyThreshold

\* ------------------------------------------------------- the answers table

\* Rows of the answers table: one row for each of the questions 1..3, none
\* for question 4.  Stored strings keep the capitals they were entered with.
Answers ==
  << [question_id |-> 1, correct_answer |-> <<"a", "b">>,
      answer_variations |-> << <<"B", "a">> >>],
     [question_id |-> 2, correct_answer |-> <<"A", "a", "a", "a">>,
      answer_variations |-> << <<"a", "a", "a", "b">> >>],
     [question_id |-> 3, correct_answer |-> <<"b", "b", "b", "b">>,
      answer_variations |-> << <<"a", "a", "a", "a">>, <<"a", "a", "a">> >>] >>

QuestionIds == 1..4

\* supabase.from('answers').select('*').eq('question_id', questionId)
RECURSIVE SelectRows(_, _)
SelectRows(rows, questionId) ==
  IF rows = <<>> THEN <<>>
  ELSE IF Head(rows).question_id = questionId
       THEN <<Head(rows)>> \o SelectRows(Tail(rows), questionId)
       ELSE SelectRows(Tail(rows), questionId)

\* ------------------------------------------------------ the synonym service

\* What api.datamuse.com/words?ml=<word> answers, as data.map(e => e.word).
Datamuse(word) ==
  IF word = <<"A", "a", "a", "a">> THEN {<<"b">>, <<"a", "a", "b">>}
  ELSE IF word = <<"b", "b", "b", "b">> THEN {<<"a", "a">>, <<"A", "b">>}
  ELSE {}

\* ------------------------------------------------------------- checkAnswer

\* The guard of the first return without its test for an empty result.
NotFoundErrorOnly(error, data) == error

\* The guard of the first return: the query failed or matched no row.
NotFound(error, data) == error \/ Len(data) = 0

\* Step 2: the comparison with the correct answer and the stored variations.
ExactMatch(userInput, correctAnswer, answerVariations) ==
  \/ TrimLower(correctAnswer) = TrimLower(userInput)
  \/ Includes(answerVariations, TrimLower(userInput))

\* answerVariations.some(v => isFuzzyMatch(userInput, v)): the variations
\* some() visits, in order, up to and including the first that matches.
RECURSIVE SomeVisited(_, _)
SomeVisited(userInput, answerVariations) ==
  IF answerVariations = <<>> THEN <<>>
  ELSE IF isFuzzyMatch(userInput, Head(answerVariations))
       THEN <<Head(answerVariations)>>
       ELSE <<Head(answerVariations)>>
              \o SomeVisited(userInput, Tail(answerVariations))

\* Step 3: the strings isFuzzyMatch is called with, in call order; the ||
\* does not reach some() when the correct answer matches.
FuzzyCompared(userInput, correctAnswer, answerVariations) ==
  IF isFuzzyMatch(userInput, correctAnswer) THEN <<correctAnswer>>
  ELSE <<correctAnswer>> \o SomeVisited(userInput, answerVariations)

Last(seq) == seq[Len(seq)]

\* Steps 2 and 3 with the fuzzy step written before the exact step.
SyncTiersFuzzyFirst(userInput, correctAnswer, answerVariations) ==
  LET cmp == FuzzyCompared(userInput, correctAnswer, answerVariations)
      fz == [i \in 1..Len(cmp) |-> <<"fuzzy", cmp[i]>>]
      d == LevenshteinDistance(userInput, Last(cmp))
  IN IF isFuzzyMatch(userInput, Last(cmp))
     THEN [line |-> 174, evaluated |-> fz, distance |-> d]
     ELSE [line |-> IF ExactMatch(userInput, correctAnswer, answerVariations)
                    THEN 169 ELSE 0,
           evaluated |-> Append(fz, <<"exact", correctAnswer>>),
           distance |-> d]

RECURSIVE MinDistance(_, _)
MinDistance(userInput, targets) ==
  IF Len(targets) = 1 THEN LevenshteinDistance(userInput, Head(targets))
  ELSE Min2(LevenshteinDistance(userInput, Head(targets)),
            MinDistance(userInput, Tail(targets)))

\* Steps 2 and 3 with the fuzzy step taking the least distance over the
\* correct answer and all variations, as LEAST(.., MIN(..)) does.
SyncTiersLeast(userInput, correctAnswer, answerVariations) ==
  IF ExactMatch(userInput, correctAnswer, answerVariations)
  THEN [line |-> 169, evaluated |-> << <<"exact", correctAnswer>> >>,
        distance |-> -1]
  ELSE LET cmp == <<correctAnswer>> \o answerVariations
           d == MinDistance(userInput, cmp)
       IN [line |-> IF d <= FuzzyThreshold THEN 174 ELSE 0,
           evaluated |-> << <<"exact", correctAnswer>> >>
                           \o [i \in 1..Len(cmp) |-> <<"fuzzy", cmp[i]>>],
           distance |-> d]

\* Steps 2 and 3, which run without suspending: the return statement reached
\* (0 when neither returns), the matchers evaluated in order, and the value
\* of levenshteinDistance in the last isFuzzyMatch call (-1: never called).
SyncTiers(userInput, correctAnswer, answerVariations) ==
  IF ExactMatch(userInput, correctAnswer, answerVariations)
  THEN [line |-> 169, evaluated |-> << <<"exact", correctAnswer>> >>,
        distance |-> -1]
  ELSE LET cmp == FuzzyCompared(userInput, correctAnswer, answerVariations)
           hit == isFuzzyMatch(userInput, Last(cmp))
       IN [line |-> IF hit THEN 174 ELSE 0,
           evaluated |-> << <<"exact", correctAnswer>> >>
                           \o [i \in 1..Len(cmp) |-> <<"fuzzy", cmp[i]>>],
           distance |-> LevenshteinDistance(userInput, Last(cmp))]

\* ------------------------------------------------------------------- state

VARIABLES
  pc,            \* per caller: "idle", "awaitStore", "awaitFetch", "awaitJson", "done"
  questionId,    \* per caller: the argument questionId
  userInput,     \* per caller: the argument userInput
  evaluated,     \* per caller: the matchers this call has evaluated, in order
  levenshteinDistance, \* per caller: levenshteinDistance of the last isFuzzyMatch call
  reqId,         \* per caller: index in requests of the lookup it awaits (0: none)
  ret,           \* per caller: "none", "true", "false", or "rejected" (the promise rejects)
  line,          \* per caller: the line of the return statement reached (0: none)
  requests,      \* every fetch() sent to the synonym service, in sending order
  now,           \* the wall clock
  levA, levB,    \* arguments of a direct levenshtein call
  levD           \* its result (-1: not called)

vars == <<pc, questionId, userInput, evaluated, levenshteinDistance, reqId,
          ret, line, requests, now, levA, levB, levD>>

callVars == <<pc, questionId, userInput, evaluated, levenshteinDistance,
              reqId, ret, line, requests>>

levVars == <<levA, levB, levD>>

Procs == 1..NumProcs

InitCalls ==
  /\ pc = [p \in Procs |-> "idle"]
  /\ questionId = [p \in Procs |-> 1]
  /\ userInput = [p \in Procs |-> <<>>]
  /\ evaluated = [p \in Procs |-> <<>>]
  /\ levenshteinDistance = [p \in Procs |-> -1]
  /\ reqId = [p \in Procs |-> 0]
  /\ ret = [p \in Procs |-> "none"]
  /\ line = [p \in Procs |-> 0]
  /\ requests = <<>>
  /\ now = 0

Init ==
  /\ InitCalls
  /\ levA = <<>>
  /\ levB = <<>>
  /\ levD = -1

\* checkAnswer(q, s) is called and suspends on the answers query.
Call(p, q, s) ==
  /\ pc[p] = "idle"
  /\ Len(requests) + Cardinality({r \in Procs : pc[r] = "awaitStore"})
       < MaxRequests
  /\ pc' = [pc EXCEPT ![p] = "awaitStore"]
  /\ questionId' = [questionId EXCEPT ![p] = q]
  /\ userInput' = [userInput EXCEPT ![p] = s]
  /\ evaluated' = [evaluated EXCEPT ![p] = <<>>]
  /\ levenshteinDistance' = [levenshteinDistance EXCEPT ![p] = -1]
  /\ reqId' = [reqId EXCEPT ![p] = 0]
  /\ ret' = [ret EXCEPT ![p] = "none"]
  /\ line' = [line EXCEPT ![p] = 0]
  /\ UNCHANGED <<requests, now, levVars>>

\* The time-to-live of a synonym cache entry, in clock ticks.
SynonymCacheTtl == 1

\* The synonym cache entries the service holds: isSynonymMatch and
\* fetchSynonyms store nothing between calls.
SynonymCacheEntries == {}

\* fetchSynonyms answered from an earlier successful lookup of the same word
\* that is younger than the time-to-live.
SendLookupCached(log, word, p, t) ==
  IF \E i \in 1..Len(log) : /\ log[i].word = word
                             /\ log[i].status = "ok"
                             /\ t - log[i].at < SynonymCacheTtl
  THEN log
  ELSE Append(log, [word |-> word, at |-> t, status |-> "pending"])

\* fetchSynonyms(word) sends fetch(`https://api.datamuse.com/words?ml=${word}`):
\* the log of requests after caller p sends one at time t.
SendLookup(log, word, p, t) ==
  Append(log, [word |-> word, at |-> t, status |-> "pending"])

\* The call returns value v at return statement ln.
Return(p, v, ln) ==
  /\ pc' = [pc EXCEPT ![p] = "done"]
  /\ ret' = [ret EXCEPT ![p] = v]
  /\ line' = [line EXCEPT ![p] = ln]

\* The answers query resolves (with an error, or with the matching rows) and
\* the call runs on to its next await or to a return.
StoreReply(p, error) ==
  /\ pc[p] = "awaitStore"
  /\ LET data == IF error THEN <<>> ELSE SelectRows(Answers, questionId[p]) IN
     IF NotFound(error, data)
     THEN /\ Return(p, "false", 159)
          /\ UNCHANGED <<evaluated, levenshteinDistance, reqId, requests>>
     ELSE IF Len(data) = 0
     THEN \* data[0] of an empty array is undefined: reading a property of it throws
          /\ Return(p, "rejected", 0)
          /\ UNCHANGED <<evaluated, levenshteinDistance, reqId, requests>>
     ELSE LET correctAnswer == data[1].correct_answer
              answerVariations == data[1].answer_variations
              t == SyncTiers(userInput[p], correctAnswer, answerVariations)
          IN /\ levenshteinDistance' =
                  [levenshteinDistance EXCEPT ![p] = t.distance]
             /\ IF t.line # 0
                THEN /\ Return(p, "true", t.line)
                     /\ evaluated' = [evaluated EXCEPT ![p] = t.evaluated]
                     /\ UNCHANGED <<reqId, requests>>
                ELSE \* Step 4: isSynonymMatch calls fetchSynonyms(correctAnswer)
                     /\ requests' = SendLookup(requests, correctAnswer, p, now)
                     /\ reqId' = [reqId EXCEPT ![p] =
                          Len(SendLookup(requests, correctAnswer, p, now))]
                     /\ evaluated' = [evaluated EXCEPT ![p] =
                          Append(t.evaluated, <<"synonym", correctAnswer>>)]
                     /\ pc' = [pc EXCEPT ![p] = "awaitFetch"]
                     /\ UNCHANGED <<ret, line>>
  /\ UNCHANGED <<questionId, userInput, now, levVars>>

\* fetch() resolves with a response; fetchSynonyms suspends on response.json().
FetchResolve(p) ==
  /\ pc[p] = "awaitFetch"
  /\ pc' = [pc EXCEPT ![p] = "awaitJson"]
  /\ UNCHANGED <<questionId, userInput, evaluated, levenshteinDistance, reqId,
                 ret, line, requests, now, levVars>>

\* The lookup fails: nothing catches it, so checkAnswer's promise rejects.
LookupFails(p) ==
  /\ requests' = [requests EXCEPT ![reqId[p]].status = "failed"]
  /\ Return(p, "rejected", 0)
  /\ UNCHANGED <<questionId, userInput, evaluated, levenshteinDistance, reqId,
                 now, levVars>>

\* fetch() rejects: a network error.
FetchReject(p) ==
  /\ pc[p] = "awaitFetch"
  /\ LookupFails(p)

\* response.json() rejects, or data.map throws: a malformed response.
JsonReject(p) ==
  /\ pc[p] = "awaitJson"
  /\ LookupFails(p)

\* The response read from a field that the latest lookup overwrites.
ResponseForLatest(p) == Datamuse(requests[Len(requests)].word)

\* The words the lookup awaited by caller p resolves with.
ResponseFor(p) == Datamuse(requests[reqId[p]].word)

\* synonyms.includes(userInput.trim().toLowerCase())
SynonymIncludes(synonyms, input) == TrimLower(input) \in synonyms

\* response.json() resolves; isSynonymMatch tests membership and checkAnswer
\* returns.
JsonResolve(p) ==
  /\ pc[p] = "awaitJson"
  /\ requests' = [requests EXCEPT ![reqId[p]].status = "ok"]
  /\ IF SynonymIncludes(ResponseFor(p), userInput[p])
     THEN Return(p, "true", 180)
     ELSE Return(p, "false", 183)
  /\ UNCHANGED <<questionId, userInput, evaluated, levenshteinDistance, reqId,
                 now, levVars>>

\* Time passes.
Tick ==
  /\ now < MaxTime
  /\ now' = now + 1
  /\ UNCHANGED <<callVars, levVars>>

\* The caller's continuation takes the settled promise; the caller may then
\* call again.
Settle(p) ==
  /\ pc[p] = "done"
  /\ pc' = [pc EXCEPT ![p] = "idle"]
  /\ questionId' = [questionId EXCEPT ![p] = 1]
  /\ userInput' = [userInput EXCEPT ![p] = <<>>]
  /\ evaluated' = [evaluated EXCEPT ![p] = <<>>]
  /\ levenshteinDistance' = [levenshteinDistance EXCEPT ![p] = -1]
  /\ reqId' = [reqId EXCEPT ![p] = 0]
  /\ ret' = [ret EXCEPT ![p] = "none"]
  /\ line' = [line EXCEPT ![p] = 0]
  /\ UNCHANGED <<requests, now, levVars>>

\* One caller, every question and every raw input, call after call until a
\* call has sent a lookup.
Next ==
  \/ \E q \in QuestionIds, s \in RawInputs : requests = <<>> /\ Call(1, q, s)
  \/ \E error \in BOOLEAN : StoreReply(1, error)
  \/ FetchResolve(1)
  \/ FetchReject(1)
  \/ JsonResolve(1)
  \/ JsonReject(1)
  \/ Settle(1)

Spec == Init /\ [][Next]_vars

\* Inputs of repeated and of concurrent calls: a word that only the synonym
\* step accepts, for question 2 alone, and a word within the threshold.
FewInputs == {<<"b">>, <<"a", "a", "b">>}

\* Their questions: the two whose calls can reach the synonym step, and the
\* one without an answer row.
FewQuestions == {2, 3, 4}

\* One caller, call after call while time passes.
SeqNext ==
  \/ \E q \in FewQuestions, s \in FewInputs : Call(1, q, s)
  \/ \E error \in BOOLEAN : StoreReply(1, error)
  \/ FetchResolve(1)
  \/ FetchReject(1)
  \/ JsonResolve(1)
  \/ JsonReject(1)
  \/ Settle(1)
  \/ Tick

SeqSpec == Init /\ [][SeqNext]_vars

\* Concurrent callers: their calls interleave at the awaits.
ConcNext ==
  \/ \E p \in Procs, q \in FewQuestions, s \in FewInputs : Call(p, q, s)
  \/ \E p \in Procs, error \in BOOLEAN : StoreReply(p, error)
  \/ \E p \in Procs : FetchResolve(p)
  \/ \E p \in Procs : FetchReject(p)
  \/ \E p \in Procs : JsonResolve(p)
  \/ \E p \in Procs : JsonReject(p)
  \/ \E p \in Procs : Settle(p)

ConcSpec == Init /\ [][ConcNext]_vars

\* The strings levenshtein is called with: trimmed and lower-cased.
NormStrings == {TrimLower(s) : s \in RawInputs}

LevInit ==
  /\ InitCalls
  /\ levA \in NormStrings
  /\ levB \in NormStrings
  /\ levD = -1

\* levenshtein(levA, levB) is called directly.
LevCall ==
  /\ levD = -1
  /\ levD' = levenshtein(levA, levB)
  /\ UNCHANGED <<callVars, now, levA, levB>>

LevNext == LevCall

LevSpec == LevInit /\ [][LevNext]_vars

\* ---------------------------------------------------------- the design's terms

\* Runs of white space collapsed to one space.
RECURSIVE CollapseSpaces(_)
CollapseSpaces(s) ==
  IF Len(s) < 2 THEN s
  ELSE IF IsSpace(s[1]) /\ IsSpace(s[2]) THEN CollapseSpaces(Tail(s))
  ELSE <<Head(s)>> \o CollapseSpaces(Tail(s))

\* The design's normalize: trim, fold case, collapse internal white space.
Normalize(s) == CollapseSpaces(TrimLower(s))

\* Minimum number of single-character insertions, deletions and
\* substitutions turning a into b, by its recursive definition.
RECURSIVE EditDistance(_, _)
EditDistance(a, b) ==
  IF a = <<>> THEN Len(b)
  ELSE IF b = <<>> THEN Len(a)
  ELSE Min2(Min2(1 + EditDistance(Tail(a), b), 1 + EditDistance(a, Tail(b))),
            (IF Head(a) = Head(b) THEN 0 ELSE 1)
              + EditDistance(Tail(a), Tail(b)))

HasAnswer(q) == SelectRows(Answers, q) # <<>>

\* data[0] for question q.
Row(q) == SelectRows(Answers, q)[1]

\* Caller p's call has settled after reading its answer row.
Decided(p) ==
  /\ pc[p] = "done"
  /\ HasAnswer(questionId[p])
  /\ line[p] # 159

Canonical(p) == Row(questionId[p]).correct_answer

Variations(p) == Row(questionId[p]).answer_variations

DistanceTo(p, target) == levenshtein(TrimLower(userInput[p]), TrimLower(target))

WithinThreshold(p) ==
  \/ DistanceTo(p, Canonical(p)) <= FuzzyThreshold
  \/ \E i \in 1..Len(Variations(p)) :
       DistanceTo(p, Variations(p)[i]) <= FuzzyThreshold

Kinds(p) == [i \in 1..Len(evaluated[p]) |-> evaluated[p][i][1]]

\* ------------------------------------------------------------------ claims

\* Caller p's call has read its answer row and run steps 2 and 3.
PastStore(p) == pc[p] \in {"awaitFetch", "awaitJson"} \/ Decided(p)

ExactHit(p) == ExactMatch(userInput[p], Canonical(p), Variations(p))

\* C1: the tiers are tried in the order exact/variant, fuzzy against the
\* correct answer, fuzzy against the variations, synonym, and the first that
\* accepts decides: after an exact hit nothing else is evaluated, after a
\* fuzzy hit no lookup is sent, a fuzzy hit on the correct answer leaves the
\* variations uncompared, and a lookup is sent only when steps 2 and 3 both
\* failed.  An input within the threshold that is also a synonym returns at
\* the fuzzy step with its distance set.
C1_TierOrder ==
  \A p \in Procs : PastStore(p) =>
    /\ ExactHit(p) =>
         /\ line[p] = 169 /\ ret[p] = "true"
         /\ Kinds(p) = <<"exact">>
         /\ reqId[p] = 0
    /\ (~ExactHit(p) /\ WithinThreshold(p)) =>
         /\ line[p] = 174 /\ ret[p] = "true"
         /\ reqId[p] = 0
         /\ Kinds(p)[1] = "exact"
         /\ \A i \in 2..Len(Kinds(p)) : Kinds(p)[i] = "fuzzy"
         /\ levenshteinDistance[p] \in 0..FuzzyThreshold
    /\ (~ExactHit(p) /\ DistanceTo(p, Canonical(p)) <= FuzzyThreshold) =>
         evaluated[p] = << <<"exact", Canonical(p)>>, <<"fuzzy", Canonical(p)>> >>
    /\ reqId[p] # 0 =>
         /\ ~ExactHit(p) /\ ~WithinThreshold(p)
         /\ evaluated[p] =
              << <<"exact", Canonical(p)>>, <<"fuzzy", Canonical(p)>> >>
                \o [i \in 1..Len(Variations(p)) |-> <<"fuzzy", Variations(p)[i]>>]
                \o << <<"synonym", Canonical(p)>> >>

\* A non-empty input that is within the threshold and a synonym of the
\* correct answer has returned at the fuzzy step.
C1_Witness ==
  \E p \in Procs :
    /\ Decided(p)
    /\ TrimLower(userInput[p]) # <<>>
    /\ TrimLower(userInput[p]) \in Datamuse(Canonical(p))
    /\ ~ExactHit(p) /\ WithinThreshold(p)
    /\ line[p] = 174
    /\ levenshteinDistance[p] >= 0

\* C2: an empty or white-space-only input is rejected at the last return
\* whatever the stored answer, and no matcher is evaluated for it.
C2_EmptyInputRejected ==
  \A p \in Procs :
    (Decided(p) /\ Normalize(userInput[p]) = <<>>) =>
      /\ ret[p] = "false" /\ line[p] = 183
      /\ evaluated[p] = <<>>
      /\ reqId[p] = 0

C4_LookupFailureAbsorbed ==
  \A p \in Procs :
    (pc[p] = "done" /\ reqId[p] # 0
       /\ requests[reqId[p]].status = "failed") =>
      /\ ret[p] = "false"
      /\ line[p] = 183

\* C5: for a non-empty input the exact/variant step accepts exactly when the
\* normalized input equals the normalized correct answer or a normalized
\* variation.
C5_ExactIffNormalizedEqual ==
  \A p \in Procs :
    (Decided(p) /\ Normalize(userInput[p]) # <<>>) =>
      (line[p] = 169 <=>
         \/ Normalize(userInput[p]) = Normalize(Canonical(p))
         \/ \E i \in 1..Len(Variations(p)) :
              Normalize(userInput[p]) = Normalize(Variations(p)[i]))

\* C6: a call with a non-empty input that ran the tiers and returned a value
\* returns false at the last return exactly when no tier accepts: the input
\* equals neither the correct answer nor a variation, its distance to the
\* correct answer and to every variation exceeds the threshold (a distance
\* equal to the threshold is accepted), and it is not among the synonyms
\* returned for the correct answer.
C6_RejectedIffNoTierAccepts ==
  \A p \in Procs :
    (Decided(p) /\ ret[p] \in {"true", "false"}
       /\ TrimLower(userInput[p]) # <<>>) =>
      ((ret[p] = "false" /\ line[p] = 183) <=>
         /\ TrimLower(userInput[p]) # TrimLower(Canonical(p))
         /\ \A i \in 1..Len(Variations(p)) :
              TrimLower(userInput[p]) # TrimLower(Variations(p)[i])
         /\ DistanceTo(p, Canonical(p)) > FuzzyThreshold
         /\ \A i \in 1..Len(Variations(p)) :
              DistanceTo(p, Variations(p)[i]) > FuzzyThreshold
         /\ TrimLower(userInput[p]) \notin Datamuse(Canonical(p)))

\* A non-empty input at distance threshold+1 from the correct answer, and
\* over the threshold for every variation, has been rejected after a lookup
\* that returned.
C6_Witness ==
  \E p \in Procs :
    /\ Decided(p)
    /\ TrimLower(userInput[p]) # <<>>
    /\ DistanceTo(p, Canonical(p)) = FuzzyThreshold + 1
    /\ ~WithinThreshold(p)
    /\ requests[reqId[p]].status = "ok"
    /\ ret[p] = "false" /\ line[p] = 183

\* C7: levenshtein is the unit-cost edit distance: it is symmetric, zero
\* exactly on equal strings, and the distance to the empty string is the
\* other string's length.
C7_LevenshteinIsEditDistance ==
  levD # -1 =>
    /\ levD = EditDistance(levA, levB)
    /\ levD = levenshtein(levB, levA)
    /\ (levD = 0 <=> levA = levB)
    /\ (levB = <<>> => levD = Len(levA))
    /\ (levA = <<>> => levD = Len(levB))

\* levenshtein has been called on two different non-empty strings of
\* different lengths.
C7_Witness ==
  /\ levD > 1
  /\ levA # <<>> /\ levB # <<>>
  /\ Len(levA) < Len(levB)

SentWhileFresh(i, j) ==
  /\ i < j
  /\ TrimLower(requests[i].word) = TrimLower(requests[j].word)
  /\ requests[i].status = "ok"
  /\ requests[j].at - requests[i].at < SynonymCacheTtl

Alone(q, s) ==
  IF ~HasAnswer(q) THEN [ret |-> "false", line |-> 159]
  ELSE LET t == SyncTiers(s, Row(q).correct_answer, Row(q).answer_variations)
       IN IF t.line # 0 THEN [ret |-> "true", line |-> t.line]
          ELSE IF TrimLower(s) \in Datamuse(Row(q).correct_answer)
               THEN [ret |-> "true", line |-> 180]
               ELSE [ret |-> "false", line |-> 183]

\* Every call that returned a value with its query answered returned what it
\* returns alone.
ReturnsAsAlone ==
  \A p \in Procs :
    (pc[p] = "done" /\ ret[p] # "rejected"
       /\ ~(HasAnswer(questionId[p]) /\ line[p] = 159)) =>
      [ret |-> ret[p], line |-> line[p]] = Alone(questionId[p], userInput[p])

====
